---- MODULE Spec2Model ----
(***************************************************************************)
(* Provider collections of buck2 (rule_defs/provider/collection.rs):       *)
(* validated construction from an evaluated value, the three query         *)
(* operators `[]`, `in` and `.get`, the freeze transition and sub-target   *)
(* resolution; and the soft errors of buck2_core (error.rs): per call site *)
(* counters, the reporting handler and escalation by $BUCK2_HARD_ERROR.    *)
(*                                                                         *)
(* A Starlark value is a record with a `kind` field.  A SmallMap is an     *)
(* insertion-ordered sequence of entries [k |-> id, v |-> value] with      *)
(* pairwise distinct keys.  An anyhow::Result is [ok |-> TRUE, val |-> x]  *)
(* or [ok |-> FALSE, err |-> e].                                           *)
(***************************************************************************)
EXTENDS Integers, Sequences, FiniteSets, TLC

VARIABLES coll, fcoll, res,
          count, once, registered, handler, env, th, reset_i,
          invoked, calls, resets, last

\* the statics of error.rs, the threads inside handle_soft_error and
\* reset_soft_error_counters, and the bookkeeping of what the handler saw
softvars == <<count, once, registered, handler, env, th, reset_i,
              invoked, calls, resets, last>>

vars == <<coll, fcoll, res, count, once, registered, handler, env, th, reset_i,
          invoked, calls, resets, last>>

(* ----------------------------- bounds ---------------------------------- *)

\* longest input list handed to a constructor
MaxLen == 3
\* longest list wrapped in a resolved promise
MaxPromiseLen == 1

(* ----------------------------- results --------------------------------- *)

Ok(x) == [ok |-> TRUE, val |-> x]

Err(e) == [ok |-> FALSE, err |-> e]

Some(x) == [some |-> TRUE, v |-> x]

None == [some |-> FALSE]

(* ------------------------- provider identities ------------------------- *)

ProviderId(path, name) == [path |-> path, name |-> name]

\* DefaultInfoCallable::provider_id(): the builtin identity, no cell path
DefaultInfoId == ProviderId("", "DefaultInfo")

FooInfoId == ProviderId("root//provider:defs1.bzl", "FooInfo")

BarInfoId == ProviderId("root//provider:defs1.bzl", "BarInfo")

BazInfoId == ProviderId("root//provider:defs1.bzl", "BazInfo")

\* a second provider type that shares the display name FooInfo
OtherFooInfoId == ProviderId("root//providers:defs.bzl", "FooInfo")

\* every identity a stored value can have
ProviderIds == {DefaultInfoId, FooInfoId, BarInfoId, OtherFooInfoId}

(* ------------------------------- values -------------------------------- *)

ProviderValue(id, field, frozen) ==
    [kind |-> "provider", id |-> id, field |-> field, frozen |-> frozen]

StringValue(s) == [kind |-> "string", s |-> s]

NoneValue == [kind |-> "none"]

ListValue(items) == [kind |-> "list", items |-> items]

\* a provider type descriptor; id is None until the callable is exported
CallableValue(name, id) == [kind |-> "callable", name |-> name, id |-> id]

\* a promise: pending, or resolved to `inner`
PromiseValue(resolved, inner) ==
    [kind |-> "promise", resolved |-> resolved, inner |-> inner]

default_info == ProviderValue(DefaultInfoId, "", FALSE)

foo1 == ProviderValue(FooInfoId, "foo1", FALSE)

foo2 == ProviderValue(FooInfoId, "foo2", FALSE)

bar1 == ProviderValue(BarInfoId, "bar1", TRUE)

\* FooInfo(foo="f1") of providers:defs.bzl: the name of foo1's type under another path
other_foo == ProviderValue(OtherFooInfoId, "f1", FALSE)

not_a_provider == StringValue("not a provider")

\* elements an input list is drawn from
ElemValues == {default_info, foo1, foo2, bar1, other_foo, not_a_provider, NoneValue}

RECURSIVE SeqsUpTo(_, _)
SeqsUpTo(S, n) ==
    IF n = 0 THEN {<<>>}
    ELSE LET shorter == SeqsUpTo(S, n - 1)
         IN  shorter \cup {Append(s, e) : s \in {t \in shorter : Len(t) = n - 1}, e \in S}

Lists == {ListValue(items) : items \in SeqsUpTo(ElemValues, MaxLen)}

Promises ==
    {PromiseValue(TRUE, ListValue(items)) : items \in SeqsUpTo(ElemValues, MaxPromiseLen)}
    \cup {PromiseValue(FALSE, NoneValue),
          PromiseValue(TRUE, foo1),
          PromiseValue(TRUE, PromiseValue(TRUE, ListValue(<<default_info>>)))}

\* values a rule implementation may return
Inputs == Lists \cup Promises \cup {foo1, default_info, not_a_provider, NoneValue}

\* values the default_info_creator factory may produce
FactoryProducts == {default_info, ProviderValue(DefaultInfoId, "", TRUE), foo1, NoneValue}

DefaultInfoCallable == CallableValue("DefaultInfo", Some(DefaultInfoId))

FooInfo == CallableValue("FooInfo", Some(FooInfoId))

BarInfo == CallableValue("BarInfo", Some(BarInfoId))

BazInfo == CallableValue("BazInfo", Some(BazInfoId))

OtherFooInfo == CallableValue("FooInfo", Some(OtherFooInfoId))

\* provider(fields = [...]) that was never assigned to a global
UnboundInfo == CallableValue("", None)

\* values used as the index of `[]`, `in` and `.get`
QueryKeys ==
    {DefaultInfoCallable, FooInfo, BarInfo, BazInfo, OtherFooInfo, UnboundInfo,
     foo1, default_info, not_a_provider, NoneValue}

(* ------------------------ value capabilities --------------------------- *)

RECURSIVE JoinStrings(_, _)
JoinStrings(strs, sep) ==
    IF Len(strs) = 0 THEN ""
    ELSE IF Len(strs) = 1 THEN strs[1]
    ELSE strs[1] \o sep \o JoinStrings(Tail(strs), sep)

RECURSIVE Repr(_)
Repr(v) ==
    CASE v.kind = "provider" ->
            IF v.id = DefaultInfoId THEN "DefaultInfo(" \o v.field \o ")"
            ELSE v.id.name \o "(\"" \o v.field \o "\")"
      [] v.kind = "string" -> "\"" \o v.s \o "\""
      [] v.kind = "none" -> "None"
      [] v.kind = "list" ->
            "[" \o JoinStrings([i \in 1..Len(v.items) |-> Repr(v.items[i])], ", ") \o "]"
      [] v.kind = "callable" -> "provider_callable(" \o v.name \o ")"
      [] v.kind = "promise" -> "promise()"

GetType(v) ==
    CASE v.kind = "provider" ->
            IF v.id = DefaultInfoId THEN "DefaultInfo" ELSE "provider"
      [] v.kind = "string" -> "string"
      [] v.kind = "none" -> "NoneType"
      [] v.kind = "list" -> "list"
      [] v.kind = "callable" -> "provider_callable"
      [] v.kind = "promise" -> "promise"

\* value.as_provider()
AsProvider(v) == IF v.kind = "provider" THEN Some(v) ELSE None

\* index.as_provider_callable()
AsProviderCallable(v) == IF v.kind = "callable" THEN Some(v) ELSE None

\* DefaultInfo::from_value(v)
DefaultInfoFromValue(v) ==
    IF v.kind = "provider" /\ v.id = DefaultInfoId THEN Some(v) ELSE None

\* ListRef::from_value(v)
ListRefFromValue(v) == IF v.kind = "list" THEN Some(v.items) ELSE None

\* StarlarkPromise::get_recursive(v): see through resolved promises
RECURSIVE GetRecursive(_)
GetRecursive(v) ==
    IF v.kind = "promise" /\ v.resolved THEN GetRecursive(v.inner) ELSE v

(* ------------------------------ SmallMap ------------------------------- *)

EmptyMap == <<>>

MapValues(m) == [i \in 1..Len(m) |-> m[i].v]

MapContainsKey(m, k) == \E i \in 1..Len(m) : m[i].k = k

MapGet(m, k) ==
    IF MapContainsKey(m, k)
    THEN Some(m[CHOOSE i \in 1..Len(m) : m[i].k = k].v)
    ELSE None

\* SmallMap::insert: an existing key keeps its position and yields the old value
MapInsert(m, k, v) ==
    IF MapContainsKey(m, k)
    THEN LET i == CHOOSE j \in 1..Len(m) : m[j].k = k
         IN  [map |-> [m EXCEPT ![i] = [k |-> k, v |-> v]], old |-> Some(m[i].v)]
    ELSE [map |-> Append(m, [k |-> k, v |-> v]), old |-> None]

(* ------------------------------ errors --------------------------------- *)

CollectionNotAList(repr) == [kind |-> "CollectionNotAList", repr |-> repr]

CollectionElementNotAProvider(repr) ==
    [kind |-> "CollectionElementNotAProvider", repr |-> repr]

CollectionSpecifiedProviderTwice(provider_name, original_repr, new_repr) ==
    [kind |-> "CollectionSpecifiedProviderTwice", provider_name |-> provider_name,
     original_repr |-> original_repr, new_repr |-> new_repr]

CollectionMissingDefaultInfo(repr) ==
    [kind |-> "CollectionMissingDefaultInfo", repr |-> repr]

ValueIsNotDefaultInfo(repr) == [kind |-> "ValueIsNotDefaultInfo", repr |-> repr]

AtTypeNotProvider(op, type) == [kind |-> "AtTypeNotProvider", op |-> op, type |-> type]

AtNotFound(name, keys) == [kind |-> "AtNotFound", name |-> name, keys |-> keys]

\* Display of GetOp
GetOpAt == "[]"

GetOpIn == "in"

GetOpGet == ".get"

(* --------------------------- construction ------------------------------ *)

\* the loop stopping one element early
RECURSIVE try_from_value_loop_drops_last(_, _, _)
try_from_value_loop_drops_last(list, i, providers) ==
    IF i >= Len(list) THEN Ok(providers)
    ELSE LET value == list[i]
             provider == AsProvider(value)
         IN  IF provider.some
             THEN LET ins == MapInsert(providers, provider.v.id, value)
                  IN  IF ins.old.some
                      THEN Err(CollectionSpecifiedProviderTwice(
                                   provider.v.id.name, Repr(ins.old.v), Repr(value)))
                      ELSE try_from_value_loop_drops_last(list, i + 1, ins.map)
             ELSE Err(CollectionElementNotAProvider(Repr(value)))

\* the loop ignoring what insert returns: a later provider replaces an earlier one
RECURSIVE try_from_value_loop_overwrites(_, _, _)
try_from_value_loop_overwrites(list, i, providers) ==
    IF i > Len(list) THEN Ok(providers)
    ELSE LET value == list[i]
             provider == AsProvider(value)
         IN  IF provider.some
             THEN try_from_value_loop_overwrites(
                      list, i + 1, MapInsert(providers, provider.v.id, value).map)
             ELSE Err(CollectionElementNotAProvider(Repr(value)))

\* the loop passing over elements that are not providers
RECURSIVE try_from_value_loop_skips(_, _, _)
try_from_value_loop_skips(list, i, providers) ==
    IF i > Len(list) THEN Ok(providers)
    ELSE LET value == list[i]
             provider == AsProvider(value)
         IN  IF provider.some
             THEN LET ins == MapInsert(providers, provider.v.id, value)
                  IN  IF ins.old.some
                      THEN Err(CollectionSpecifiedProviderTwice(
                                   provider.v.id.name, Repr(ins.old.v), Repr(value)))
                      ELSE try_from_value_loop_skips(list, i + 1, ins.map)
             ELSE try_from_value_loop_skips(list, i + 1, providers)

\* the `for value in list.iter()` loop of try_from_value_impl, from element i on
RECURSIVE try_from_value_loop(_, _, _)
try_from_value_loop(list, i, providers) ==
    IF i > Len(list) THEN Ok(providers)
    ELSE LET value == list[i]
             provider == AsProvider(value)
         IN  IF provider.some
             THEN LET ins == MapInsert(providers, provider.v.id, value)
                  IN  IF ins.old.some
                      THEN Err(CollectionSpecifiedProviderTwice(
                                   provider.v.id.name, Repr(ins.old.v), Repr(value)))
                      ELSE try_from_value_loop(list, i + 1, ins.map)
             ELSE Err(CollectionElementNotAProvider(Repr(value)))

\* try_from_value_impl looking for elements that are not providers in the
\* whole list before it looks for repeated identities
try_from_value_impl_two_pass(value0) ==
    LET value == GetRecursive(value0)
        list == ListRefFromValue(value)
    IN  IF ~list.some THEN Err(CollectionNotAList(Repr(value)))
        ELSE IF \E i \in 1..Len(list.v) : ~AsProvider(list.v[i]).some
             THEN LET first == CHOOSE i \in 1..Len(list.v) :
                                  /\ ~AsProvider(list.v[i]).some
                                  /\ \A j \in 1..(i - 1) : AsProvider(list.v[j]).some
                  IN  Err(CollectionElementNotAProvider(Repr(list.v[first])))
             ELSE try_from_value_loop(list.v, 1, EmptyMap)

try_from_value_impl(value0) ==
    LET value == GetRecursive(value0)
        list == ListRefFromValue(value)
    IN  IF ~list.some THEN Err(CollectionNotAList(Repr(value)))
        ELSE try_from_value_loop(list.v, 1, EmptyMap)

\* the strict constructor without its DefaultInfo check
try_from_value_unchecked(value) ==
    LET providers == try_from_value_impl(value)
    IN  IF ~providers.ok THEN providers
        ELSE Ok([providers |-> providers.val])

\* the strict constructor
try_from_value(value) ==
    LET providers == try_from_value_impl(value)
    IN  IF ~providers.ok THEN providers
        ELSE IF ~MapContainsKey(providers.val, DefaultInfoId)
             THEN Err(CollectionMissingDefaultInfo(Repr(value)))
             ELSE Ok([providers |-> providers.val])

\* the lenient constructor calling the factory and dropping its product
try_from_value_with_default_info_forgets(value, product) ==
    LET providers == try_from_value_impl(value)
    IN  IF ~providers.ok THEN [out |-> providers, factory_called |-> FALSE]
        ELSE IF ~MapContainsKey(providers.val, DefaultInfoId)
             THEN LET di_value == product
                  IN  IF ~DefaultInfoFromValue(di_value).some
                      THEN [out |-> Err(ValueIsNotDefaultInfo(Repr(di_value))),
                            factory_called |-> TRUE]
                      ELSE [out |-> Ok([providers |-> providers.val]),
                            factory_called |-> TRUE]
             ELSE [out |-> Ok([providers |-> providers.val]), factory_called |-> FALSE]

\* the lenient constructor inserting the product without the type check
try_from_value_with_default_info_untyped(value, product) ==
    LET providers == try_from_value_impl(value)
    IN  IF ~providers.ok THEN [out |-> providers, factory_called |-> FALSE]
        ELSE IF ~MapContainsKey(providers.val, DefaultInfoId)
             THEN [out |-> Ok([providers |->
                                 MapInsert(providers.val, DefaultInfoId, product).map]),
                   factory_called |-> TRUE]
             ELSE [out |-> Ok([providers |-> providers.val]), factory_called |-> FALSE]

\* the lenient constructor calling the factory before it looks at the input
try_from_value_with_default_info_eager(value, product) ==
    LET providers == try_from_value_impl(value)
        di_value == product
    IN  IF ~providers.ok THEN [out |-> providers, factory_called |-> TRUE]
        ELSE IF ~MapContainsKey(providers.val, DefaultInfoId)
             THEN IF ~DefaultInfoFromValue(di_value).some
                  THEN [out |-> Err(ValueIsNotDefaultInfo(Repr(di_value))),
                        factory_called |-> TRUE]
                  ELSE [out |-> Ok([providers |->
                                      MapInsert(providers.val, DefaultInfoId, di_value).map]),
                        factory_called |-> TRUE]
             ELSE [out |-> Ok([providers |-> providers.val]), factory_called |-> TRUE]

\* the lenient constructor; product is what default_info_creator() returns when
\* it is called.  The result carries whether the factory was invoked.
try_from_value_with_default_info(value, product) ==
    LET providers == try_from_value_impl(value)
    IN  IF ~providers.ok THEN [out |-> providers, factory_called |-> FALSE]
        ELSE IF ~MapContainsKey(providers.val, DefaultInfoId)
             THEN LET di_value == product
                  IN  IF ~DefaultInfoFromValue(di_value).some
                      THEN [out |-> Err(ValueIsNotDefaultInfo(Repr(di_value))),
                            factory_called |-> TRUE]
                      ELSE [out |-> Ok([providers |->
                                          MapInsert(providers.val, DefaultInfoId, di_value).map]),
                            factory_called |-> TRUE]
             ELSE [out |-> Ok([providers |-> providers.val]), factory_called |-> FALSE]

(* --------------------------- query operators --------------------------- *)

Left(v) == [left |-> TRUE, v |-> v]

Right(id) == [left |-> FALSE, id |-> id]

\* get_impl probing by display name instead of by identity
get_impl_by_name(self, index, op) ==
    LET callable == AsProviderCallable(index)
    IN  IF callable.some
        THEN LET provider_id == IF callable.v.id.some THEN Ok(callable.v.id.v)
                                ELSE Err([kind |-> "RequireIdFailed"])
             IN  IF ~provider_id.ok THEN provider_id
                 ELSE LET hits == {i \in 1..Len(self.providers) :
                                      self.providers[i].k.name = provider_id.val.name}
                      IN  IF hits # {}
                          THEN Ok(Left(self.providers[CHOOSE i \in hits : TRUE].v))
                          ELSE Ok(Right(provider_id.val))
        ELSE Err(AtTypeNotProvider(op, GetType(index)))

\* get_impl reporting every type error as one of `[]`
get_impl_reports_at(self, index, op) ==
    LET callable == AsProviderCallable(index)
    IN  IF callable.some
        THEN LET provider_id == IF callable.v.id.some THEN Ok(callable.v.id.v)
                                ELSE Err([kind |-> "RequireIdFailed"])
             IN  IF ~provider_id.ok THEN provider_id
                 ELSE LET found == MapGet(self.providers, provider_id.val)
                      IN  IF found.some THEN Ok(Left(found.v))
                          ELSE Ok(Right(provider_id.val))
        ELSE Err(AtTypeNotProvider(GetOpAt, GetType(index)))

\* common implementation of `[]`, `in` and `.get`
get_impl(self, index, op) ==
    LET callable == AsProviderCallable(index)
    IN  IF callable.some
        THEN LET provider_id == IF callable.v.id.some THEN Ok(callable.v.id.v)
                                ELSE Err([kind |-> "RequireIdFailed"])
             IN  IF ~provider_id.ok THEN provider_id
                 ELSE LET found == MapGet(self.providers, provider_id.val)
                      IN  IF found.some THEN Ok(Left(found.v))
                          ELSE Ok(Right(provider_id.val))
        ELSE Err(AtTypeNotProvider(op, GetType(index)))

\* `.get`
get(self, index) ==
    LET r == get_impl(self, index, GetOpGet)
    IN  IF ~r.ok THEN r
        ELSE Ok(IF r.val.left THEN r.val.v ELSE NoneValue)

\* `[]` answering None for an absent provider, as `.get` does
at_none_if_absent(self, index) ==
    LET r == get_impl(self, index, GetOpAt)
    IN  IF ~r.ok THEN r
        ELSE Ok(IF r.val.left THEN r.val.v ELSE NoneValue)

\* `[]`
at(self, index) ==
    LET r == get_impl(self, index, GetOpAt)
    IN  IF ~r.ok THEN r
        ELSE IF r.val.left THEN Ok(r.val.v)
        ELSE Err(AtNotFound(r.val.id.name,
                            [i \in 1..Len(self.providers) |-> self.providers[i].k.name]))

\* `in`
is_in(self, other) ==
    LET r == get_impl(self, other, GetOpIn)
    IN  IF ~r.ok THEN r ELSE Ok(r.val.left)

(* ------------------------------- freeze -------------------------------- *)

\* freezer.freeze(v); freezing the values whose identity is in `failing` fails
FreezeValue(v, failing) ==
    IF v.id \in failing THEN Err([kind |-> "FreezeError", repr |-> Repr(v)])
    ELSE Ok([v EXCEPT !.frozen = TRUE])

\* the freeze loop stopping one entry early
RECURSIVE freeze_loop_drops_last(_, _, _, _)
freeze_loop_drops_last(entries, i, failing, acc) ==
    IF i >= Len(entries) THEN Ok(acc)
    ELSE LET fv == FreezeValue(entries[i].v, failing)
         IN  IF ~fv.ok THEN fv
             ELSE freeze_loop_drops_last(entries, i + 1, failing,
                                         MapInsert(acc, entries[i].k, fv.val).map)

\* the freeze loop leaving out the entries whose value fails to freeze
RECURSIVE freeze_loop_skips_failures(_, _, _, _)
freeze_loop_skips_failures(entries, i, failing, acc) ==
    IF i > Len(entries) THEN Ok(acc)
    ELSE LET fv == FreezeValue(entries[i].v, failing)
         IN  IF ~fv.ok
             THEN freeze_loop_skips_failures(entries, i + 1, failing, acc)
             ELSE freeze_loop_skips_failures(entries, i + 1, failing,
                                             MapInsert(acc, entries[i].k, fv.val).map)

\* into_iter().map(..).collect::<anyhow::Result<_>>() from entry i on
RECURSIVE freeze_loop(_, _, _, _)
freeze_loop(entries, i, failing, acc) ==
    IF i > Len(entries) THEN Ok(acc)
    ELSE LET fv == FreezeValue(entries[i].v, failing)
         IN  IF ~fv.ok THEN fv
             ELSE freeze_loop(entries, i + 1, failing,
                              MapInsert(acc, entries[i].k, fv.val).map)

freeze(self, failing) ==
    LET providers == freeze_loop(self.providers, 1, failing, EmptyMap)
    IN  IF ~providers.ok THEN providers
        ELSE Ok([providers |-> providers.val])

(* ------------------------ frozen introspection ------------------------- *)

contains_provider(self, provider_id) == MapContainsKey(self.providers, provider_id)

get_provider_raw(self, provider_id) == MapGet(self.providers, provider_id)

provider_names(self) == [i \in 1..Len(self.providers) |-> self.providers[i].k.name]

provider_ids(self) == [i \in 1..Len(self.providers) |-> self.providers[i].k]

\* Display: "Providers([" v1, v2, ... "])" over the values in map order
Display(self) ==
    "Providers(["
    \o JoinStrings([i \in 1..Len(self.providers) |-> Repr(self.providers[i].v)], ", ")
    \o "])"

\* Serialize: collect_map of (id.name(), v) in map order
Serialize(self) ==
    [i \in 1..Len(self.providers) |->
        <<self.providers[i].k.name, Repr(self.providers[i].v)>>]

(* ------------------------- sub-target resolution ------------------------ *)

RequestedInvalidSubTarget(name, label, available) ==
    [kind |-> "RequestedInvalidSubTarget", name |-> name, label |-> label,
     available |-> available]

UnknownFlavors(target, flavor) ==
    [kind |-> "UnknownFlavors", target |-> target, flavor |-> flavor]

\* a frozen DefaultInfo carrying a sub-target map, name -> frozen collection
DefaultInfoValue(sub_targets) ==
    [kind |-> "provider", id |-> DefaultInfoId, field |-> "", frozen |-> TRUE,
     sub_targets |-> sub_targets]

\* ProvidersName
ProvidersNameDefault == [kind |-> "Default"]

ProvidersNameNamed(names) == [kind |-> "Named", names |-> names]

ProvidersNameUnrecognizedFlavor(flavor) == [kind |-> "UnrecognizedFlavor", flavor |-> flavor]

\* ConfiguredProvidersLabel
ConfiguredProvidersLabel(target, cfg, name) == [target |-> target, cfg |-> cfg, name |-> name]

\* label.unconfigured().to_string(): the target and the providers name, no configuration
UnconfiguredToString(label) ==
    label.target \o
    (CASE label.name.kind = "Default" -> ""
       [] label.name.kind = "Named" ->
             JoinStrings([i \in 1..Len(label.name.names) |->
                             "[" \o label.name.names[i] \o "]"], "")
       [] label.name.kind = "UnrecognizedFlavor" -> "#" \o label.name.flavor)

\* FrozenProviderCollection::default_info: the expect() panics when the entry is
\* absent or is no frozen DefaultInfo
default_info_of(self) ==
    LET found == MapGet(self.providers, DefaultInfoId)
    IN  IF found.some /\ DefaultInfoFromValue(found.v).some /\ found.v.frozen
        THEN Ok(found.v)
        ELSE Err([kind |-> "panic", message |-> "DefaultInfo should always be set"])

\* FrozenProviderCollection::default_info_value
default_info_value(self) ==
    LET found == MapGet(self.providers, DefaultInfoId)
    IN  IF found.some THEN Ok(found.v)
        ELSE Err([kind |-> "panic", message |-> "DefaultInfo should always be set"])

\* FrozenDefaultInfo::sub_targets
sub_targets(di) == IF "sub_targets" \in DOMAIN di THEN di.sub_targets ELSE EmptyMap

\* FrozenDefaultInfo::get_sub_target_providers
get_sub_target_providers(di, name) == MapGet(sub_targets(di), name)

\* the loop of lookup_inner that starts in the collection v and looks up every
\* segment in the first-level sub-targets of v
RECURSIVE lookup_named_loop_from_top(_, _, _, _, _, _)
lookup_named_loop_from_top(v, label, names, i, collection_value, visited) ==
    IF i > Len(names) THEN [out |-> Ok(collection_value), visited |-> visited]
    ELSE LET provider_name == names[i]
             maybe_di == get_sub_target_providers(default_info_of(v).val, provider_name)
         IN  IF maybe_di.some
             THEN lookup_named_loop_from_top(v, label, names, i + 1, maybe_di.v,
                                             Append(visited, v))
             ELSE [out |-> Err(RequestedInvalidSubTarget(
                                 provider_name, label,
                                 [j \in 1..Len(sub_targets(default_info_of(v).val)) |->
                                     sub_targets(default_info_of(v).val)[j].k])),
                   visited |-> Append(Append(visited, v), v)]

\* the `for provider_name in provider_names` loop of lookup_inner from segment i
\* on; v is the starting collection, `visited` the collections whose
\* DefaultInfo was read so far
RECURSIVE lookup_named_loop(_, _, _, _, _, _)
lookup_named_loop(v, label, names, i, collection_value, visited) ==
    IF i > Len(names) THEN [out |-> Ok(collection_value), visited |-> visited]
    ELSE LET provider_name == names[i]
             maybe_di == get_sub_target_providers(default_info_of(collection_value).val,
                                                  provider_name)
         IN  IF maybe_di.some
             THEN lookup_named_loop(v, label, names, i + 1, maybe_di.v,
                                    Append(visited, collection_value))
             ELSE [out |-> Err(RequestedInvalidSubTarget(
                                 provider_name, label,
                                 [j \in 1..Len(sub_targets(default_info_of(v).val)) |->
                                     sub_targets(default_info_of(v).val)[j].k])),
                   visited |-> Append(Append(visited, collection_value), v)]

\* lookup_inner answering an unrecognized flavor like the Default selector
lookup_inner_flavor_as_default(self, label) ==
    CASE label.name.kind = "Default" -> [out |-> Ok(self), visited |-> <<>>]
      [] label.name.kind = "Named" ->
            lookup_named_loop(self, label, label.name.names, 1, self, <<>>)
      [] label.name.kind = "UnrecognizedFlavor" -> [out |-> Ok(self), visited |-> <<>>]

\* FrozenProviderCollectionValue::lookup_inner
lookup_inner(self, label) ==
    CASE label.name.kind = "Default" -> [out |-> Ok(self), visited |-> <<>>]
      [] label.name.kind = "Named" ->
            lookup_named_loop(self, label, label.name.names, 1, self, <<>>)
      [] label.name.kind = "UnrecognizedFlavor" ->
            [out |-> Err(UnknownFlavors(UnconfiguredToString(label), label.name.flavor)),
             visited |-> <<>>]

(* ------------------- frozen collections with sub-targets ---------------- *)

\* longest named path handed to lookup_inner
MaxPath == 3

\* names a sub-target map uses
SubTargetNames == {"foo", "bar"}

\* names a path segment is drawn from
SegmentNames == {"foo", "bar", "baz"}

FrozenCollection(providers) == [providers |-> providers]

\* a collection whose only provider is a DefaultInfo with these sub-targets
CollectionWith(subs) ==
    FrozenCollection(<<[k |-> DefaultInfoId, v |-> DefaultInfoValue(subs)]>>)

\* the sub-target maps of at most two entries over `children`, in either order
SubTargetMaps(children) ==
    {EmptyMap}
    \cup {<<[k |-> n, v |-> c]>> : n \in SubTargetNames, c \in children}
    \cup {m \in {<<[k |-> n1, v |-> c1], [k |-> n2, v |-> c2]>> :
                       n1 \in SubTargetNames, n2 \in SubTargetNames,
                       c1 \in children, c2 \in children} : m[1].k # m[2].k}

\* the collection without sub-targets
Level0 == {CollectionWith(EmptyMap)}

Level1 == {CollectionWith(subs) : subs \in SubTargetMaps(Level0)}

Level2 == {CollectionWith(subs) : subs \in SubTargetMaps(Level1)}

\* the frozen collections a handle may wrap: the nested ones and a flat one
\* that holds a second provider
Handles ==
    Level2
    \cup {FrozenCollection(<<[k |-> FooInfoId, v |-> ProviderValue(FooInfoId, "foo1", TRUE)],
                             [k |-> DefaultInfoId, v |-> DefaultInfoValue(EmptyMap)]>>)}

Labels ==
    {ConfiguredProvidersLabel("root//pkg:target", "cfg", name) :
        name \in {ProvidersNameDefault}
                 \cup {ProvidersNameNamed(p) : p \in SeqsUpTo(SegmentNames, MaxPath)}
                 \cup {ProvidersNameUnrecognizedFlavor(f) : f \in {"flavor", "foo"}}}

(* ---------------------------- soft errors ------------------------------ *)

\* most occurrences of one call site that are reported before a reset
ReportLimit == 10

\* handle_soft_error calls started in one behaviour at the soft_error! site
MaxCalls == 11
\* and at the quiet_soft_error! site
MaxQuietCalls == 1
\* reset_soft_error_counters calls started in one behaviour
MaxResets == 1

\* A string of the environment is kept as its '=' separated parts, a part as
\* its ',' separated items, an item as its text and whether blanks surround it.
Item(text) == [text |-> text, padded |-> FALSE]

PaddedItem(text) == [text |-> text, padded |-> TRUE]

ItemString(item) == IF item.padded THEN " " \o item.text \o " " ELSE item.text

PartString(part) == JoinStrings([i \in 1..Len(part) |-> ItemString(part[i])], ",")

EnvString(s) == JoinStrings([i \in 1..Len(s) |-> PartString(s[i])], "=")

\* str::trim
trim(item) == item.text

\* $BUCK2_HARD_ERROR is not set
Unset == None

\* the values $BUCK2_HARD_ERROR takes: unset, "true", "false", "only=foo,bar",
\* "only= baz ", "yes"
EnvValues ==
    {Unset,
     Some(<< <<Item("true")>> >>),
     Some(<< <<Item("false")>> >>),
     Some(<< <<Item("only")>>, <<Item("foo"), Item("bar")>> >>),
     Some(<< <<Item("only")>>, <<PaddedItem("baz")>> >>),
     Some(<< <<Item("yes")>> >>)}

Bool(v) == [kind |-> "Bool", v |-> v]

Selected(s) == [kind |-> "Selected", s |-> s]

InvalidHardErrorConfig(text) == [kind |-> "InvalidHardErrorConfig", config |-> text]

\* <bool as FromStr>::from_str succeeds on exactly "true" and "false"
ParsesAsBool(s) ==
    /\ Len(s) = 1
    /\ Len(s[1]) = 1
    /\ ~s[1][1].padded
    /\ s[1][1].text \in {"true", "false"}

\* HardErrorConfig::from_str
from_str(s) ==
    IF ParsesAsBool(s) THEN Ok(Bool(s[1][1].text = "true"))
    ELSE IF Len(s) = 2 /\ s[1] = <<Item("only")>>
    THEN Ok(Selected({trim(s[2][i]) : i \in 1..Len(s[2])}))
    ELSE Err(InvalidHardErrorConfig(EnvString(s)))

\* the variant that escalates every category once a selection is configured
should_hard_error_any_selection(self, category) ==
    IF self.kind = "Bool" THEN self.v ELSE self.s # {}

\* HardErrorConfig::should_hard_error
should_hard_error(self, category) ==
    IF self.kind = "Bool" THEN self.v ELSE category \in self.s

\* HARD_ERROR.get(): nothing when the variable is unset, the parsed value, or
\* the failure to parse it
HardErrorGet(e) ==
    IF ~e.some THEN Ok(None)
    ELSE LET parsed == from_str(e.v)
         IN  IF parsed.ok THEN Ok(Some(parsed.val)) ELSE Err(parsed.err)

\* err.context(..): the error wrapped by the escalation message
Context(err, message) == [kind |-> "Context", context |-> message, source |-> err]

\* the tail of handle_soft_error: the value returned for `err` of `category`
hard_error_result(category, err, e) ==
    LET h == HardErrorGet(e)
    IN  IF ~h.ok THEN Err(h.err)
        ELSE IF h.val.some /\ should_hard_error(h.val.v, category)
        THEN Err(Context(err, "Upgraded warning to failure via $BUCK2_HARD_ERROR"))
        ELSE Ok(err)

\* the soft_error! / quiet_soft_error! call sites of the program, each with
\* its own COUNT and ONCE statics
Sites == {"site_foo", "site_baz"}

\* the constant category a call site passes
Category(site) == IF site = "site_foo" THEN "foo" ELSE "baz"

\* quiet_soft_error! passes true, soft_error! passes false
Quiet(site) == site = "site_baz"

\* the anyhow::Error a call site passes
SoftError(site) == [kind |-> "Error", message |-> "Message", site |-> site]

\* the calls of one behaviour a site may start
MaxCallsAt(site) == IF Quiet(site) THEN MaxQuietCalls ELSE MaxCalls

\* the threads that raise soft errors
Threads == {"t1", "t2"}

\* a thread outside handle_soft_error
IdleThread == [pc |-> "idle"]

\* the statics as the process starts with $BUCK2_HARD_ERROR = e
ProcessStart(e) ==
    /\ count = [s \in Sites |-> 0]
    /\ once = [s \in Sites |-> FALSE]
    /\ registered = <<>>
    /\ handler = FALSE
    /\ env = e
    /\ th = [t \in Threads |-> IdleThread]
    /\ reset_i = 0
    /\ invoked = [s \in Sites |-> 0]
    /\ calls = [s \in Sites |-> 0]
    /\ resets = 0
    /\ last = None

(* ------------------------------ state ---------------------------------- *)

\* no collection is held
NoColl == [absent |-> TRUE]

\* the collection a query operator is applied to: the mutable one until it
\* is consumed by freeze, the frozen one afterwards
Held == IF fcoll # NoColl THEN fcoll ELSE coll

Init ==
    /\ coll = NoColl
    /\ fcoll = NoColl
    /\ res = [op |-> "init"]
    /\ ProcessStart(Unset)

\* One behaviour follows the collection of one rule invocation: it is built
\* once from the evaluated value, queried, consumed by freeze and queried again.
\* a rule implementation returned `value`: build its collection strictly
TryFromValue(value) ==
    /\ res.op = "init"
    /\ LET r == try_from_value(value)
       IN  /\ coll' = (IF r.ok THEN r.val ELSE NoColl)
           /\ fcoll' = NoColl
           /\ res' = [op |-> "try_from_value", value |-> value, out |-> r]
    /\ UNCHANGED softvars

\* the same with the lenient constructor and a factory returning `product`
TryFromValueWithDefaultInfo(value, product) ==
    /\ res.op = "init"
    /\ LET r == try_from_value_with_default_info(value, product)
       IN  /\ coll' = (IF r.out.ok THEN r.out.val ELSE NoColl)
           /\ fcoll' = NoColl
           /\ res' = [op |-> "try_from_value_with_default_info", value |-> value,
                      product |-> product, out |-> r.out,
                      factory_called |-> r.factory_called]
    /\ UNCHANGED softvars

\* collection[index]
At(index) ==
    /\ Held # NoColl
    /\ res' = [op |-> "at", index |-> index, out |-> at(Held, index)]
    /\ UNCHANGED <<coll, fcoll>>
    /\ UNCHANGED softvars

\* index in collection
IsIn(index) ==
    /\ Held # NoColl
    /\ res' = [op |-> "is_in", index |-> index, out |-> is_in(Held, index)]
    /\ UNCHANGED <<coll, fcoll>>
    /\ UNCHANGED softvars

\* collection.get(index)
Get(index) ==
    /\ Held # NoColl
    /\ res' = [op |-> "get", index |-> index, out |-> get(Held, index)]
    /\ UNCHANGED <<coll, fcoll>>
    /\ UNCHANGED softvars

\* the mutable collection is consumed; freezing the values in `failing` fails
Freeze(failing) ==
    /\ coll # NoColl
    /\ failing \subseteq {coll.providers[i].k : i \in 1..Len(coll.providers)}
    /\ LET r == freeze(coll, failing)
       IN  /\ coll' = NoColl
           /\ fcoll' = (IF r.ok THEN r.val ELSE NoColl)
           /\ res' = [op |-> "freeze", before |-> coll, failing |-> failing, out |-> r]
    /\ UNCHANGED softvars

Next ==
    \/ \E value \in Inputs : TryFromValue(value)
    \/ \E value \in Inputs, product \in FactoryProducts :
           TryFromValueWithDefaultInfo(value, product)
    \/ \E index \in QueryKeys : At(index)
    \/ \E index \in QueryKeys : IsIn(index)
    \/ \E index \in QueryKeys : Get(index)
    \/ \E failing \in SUBSET ProviderIds : Freeze(failing)

Spec == Init /\ [][Next]_vars

\* a frozen collection with sub-targets is held by a handle
InitLookup ==
    /\ coll = NoColl
    /\ fcoll \in Handles
    /\ res = [op |-> "init"]
    /\ ProcessStart(Unset)

\* handle.lookup_inner(label)
LookupInner(label) ==
    /\ fcoll # NoColl
    /\ LET r == lookup_inner(fcoll, label)
       IN  res' = [op |-> "lookup_inner", label |-> label, out |-> r.out,
                   visited |-> r.visited]
    /\ UNCHANGED <<coll, fcoll>>
    /\ UNCHANGED softvars

NextLookup == \E label \in Labels : LookupInner(label)

SpecLookup == InitLookup /\ [][NextLookup]_vars

\* the process starts with some value of $BUCK2_HARD_ERROR and no collection
InitSoft ==
    /\ coll = NoColl
    /\ fcoll = NoColl
    /\ res = [op |-> "init"]
    /\ \E e \in EnvValues : ProcessStart(e)

\* initialize(handler): nothing is installed when $BUCK2_HARD_ERROR is
\* invalid; a second installation panics and is not taken
Initialize ==
    /\ ~handler
    /\ handler' = HardErrorGet(env).ok
    /\ UNCHANGED <<coll, fcoll, res, count, once, registered, env, th, reset_i,
                   invoked, calls, resets, last>>

\* thread t reaches the call site and enters handle_soft_error; in
\* once.call_once the first call of a site pushes its counter under the lock
\* of ALL_SOFT_ERROR_COUNTERS, which a running reset holds
HandleSoftError(t, site) ==
    /\ th[t].pc = "idle"
    /\ calls[site] < MaxCallsAt(site)
    /\ IF once[site]
       THEN UNCHANGED <<once, registered>>
       ELSE /\ reset_i = 0
            /\ registered' = Append(registered, site)
            /\ once' = [once EXCEPT ![site] = TRUE]
    /\ th' = [th EXCEPT ![t] = [pc |-> "add", site |-> site]]
    /\ calls' = [calls EXCEPT ![site] = calls[site] + 1]
    /\ UNCHANGED <<coll, fcoll, res, count, handler, env, reset_i, invoked,
                   resets, last>>

\* count.fetch_add(1, SeqCst) < 10
FetchAdd(t) ==
    /\ th[t].pc = "add"
    /\ LET site == th[t].site
       IN  /\ count' = [count EXCEPT ![site] = count[site] + 1]
           /\ th' = [th EXCEPT ![t] = [pc |-> "report", site |-> site,
                                       fresh |-> count[site] < ReportLimit]]
    /\ UNCHANGED <<coll, fcoll, res, once, registered, handler, env, reset_i,
                   invoked, calls, resets, last>>

\* the handler, when one is installed, is invoked for a counted occurrence
\* below the limit; then the call returns
Report(t) ==
    /\ th[t].pc = "report"
    /\ LET site == th[t].site
       IN  /\ invoked' = IF th[t].fresh /\ handler
                         THEN [invoked EXCEPT ![site] = invoked[site] + 1]
                         ELSE invoked
           /\ last' = Some([site |-> site, fresh |-> th[t].fresh,
                            ret |-> hard_error_result(Category(site),
                                                      SoftError(site), env)])
    /\ th' = [th EXCEPT ![t] = IdleThread]
    /\ UNCHANGED <<coll, fcoll, res, count, once, registered, handler, env,
                   reset_i, calls, resets>>

\* reset_soft_error_counters takes the lock of ALL_SOFT_ERROR_COUNTERS
ResetBegin ==
    /\ reset_i = 0
    /\ resets < MaxResets
    /\ resets' = resets + 1
    /\ reset_i' = IF Len(registered) = 0 THEN 0 ELSE 1
    /\ UNCHANGED <<coll, fcoll, res, count, once, registered, handler, env, th,
                   invoked, calls, last>>

\* counter.store(0, Relaxed) for the next registered counter; the lock is
\* released after the last one
ResetStore ==
    /\ reset_i >= 1
    /\ LET site == registered[reset_i]
       IN  /\ count' = [count EXCEPT ![site] = 0]
           /\ invoked' = [invoked EXCEPT ![site] = 0]
    /\ reset_i' = IF reset_i = Len(registered) THEN 0 ELSE reset_i + 1
    /\ UNCHANGED <<coll, fcoll, res, once, registered, handler, env, th, calls,
                   resets, last>>

NextSoft ==
    \/ Initialize
    \/ \E t \in Threads, site \in Sites : HandleSoftError(t, site)
    \/ \E t \in Threads : FetchAdd(t)
    \/ \E t \in Threads : Report(t)
    \/ ResetBegin
    \/ ResetStore

SpecSoft == InitSoft /\ [][NextSoft]_vars

(* ----------------------- shapes of constructor inputs ------------------ *)

\* the constructor's argument is a list once resolved promises are seen through
IsListInput(value) == GetRecursive(value).kind = "list"

\* the elements of that list
ItemsOf(value) == GetRecursive(value).items

AllProviders(items) == \A i \in 1..Len(items) : items[i].kind = "provider"

DistinctIdentities(items) ==
    \A i, j \in 1..Len(items) :
        (i < j /\ items[i].kind = "provider" /\ items[j].kind = "provider")
            => items[i].id # items[j].id

HasDefaultInfo(items) ==
    \E i \in 1..Len(items) : items[i].kind = "provider" /\ items[i].id = DefaultInfoId

\* element j repeats the identity of an earlier element
RepeatsEarlier(items, j) ==
    /\ items[j].kind = "provider"
    /\ \E i \in 1..(j - 1) : items[i].kind = "provider" /\ items[i].id = items[j].id

SharesIdentity(items) == \E j \in 1..Len(items) : RepeatsEarlier(items, j)

HasNonProvider(items) == \E i \in 1..Len(items) : items[i].kind # "provider"

\* the first element that is not a provider or repeats an earlier identity
FirstOffending(items) ==
    CHOOSE j \in 1..Len(items) :
        /\ items[j].kind # "provider" \/ RepeatsEarlier(items, j)
        /\ \A i \in 1..(j - 1) : items[i].kind = "provider" /\ ~RepeatsEarlier(items, i)

IsConstruction == res.op \in {"try_from_value", "try_from_value_with_default_info"}

\* a list of providers with pairwise distinct identities
WellFormed(value) ==
    /\ IsListInput(value)
    /\ AllProviders(ItemsOf(value))
    /\ DistinctIdentities(ItemsOf(value))

ReprsOf(items) == [i \in 1..Len(items) |-> Repr(items[i])]

(* -------------------------------- C1 ----------------------------------- *)

\* C1: for a list of providers with pairwise distinct identities that includes
\* DefaultInfo, try_from_value succeeds and the collection holds exactly the
\* identities of the input elements in input order, as seen through
\* provider_ids, provider_names, Display and Serialize.
C1_StrictConstructionKeepsInputOrder ==
    (res.op = "try_from_value" /\ WellFormed(res.value) /\ HasDefaultInfo(ItemsOf(res.value)))
    => LET items == ItemsOf(res.value)
       IN  /\ res.out.ok
           /\ coll = res.out.val
           /\ provider_ids(coll) = [i \in 1..Len(items) |-> items[i].id]
           /\ provider_names(coll) = [i \in 1..Len(items) |-> items[i].id.name]
           /\ MapValues(coll.providers) = items
           /\ Display(coll) = "Providers([" \o JoinStrings(ReprsOf(items), ", ") \o "])"
           /\ Serialize(coll) = [i \in 1..Len(items) |-> <<items[i].id.name, Repr(items[i])>>]

\* a strict construction of three providers whose DefaultInfo comes last succeeded
C1_Witness ==
    /\ res.op = "try_from_value"
    /\ res.out.ok
    /\ Len(coll.providers) >= 3
    /\ coll.providers[1].k # DefaultInfoId
    /\ coll.providers[Len(coll.providers)].k = DefaultInfoId

(* -------------------------------- C2 ----------------------------------- *)

\* C2 as stated: whenever two elements of the input list share a provider
\* identity, both constructors fail with CollectionSpecifiedProviderTwice.
C2_AnyDuplicateIsReportedAsDuplicate ==
    (IsConstruction /\ IsListInput(res.value) /\ SharesIdentity(ItemsOf(res.value)))
    => (~res.out.ok /\ res.out.err.kind = "CollectionSpecifiedProviderTwice")

\* C2 amended: when two elements share a provider identity, construction fails;
\* it fails with CollectionSpecifiedProviderTwice, naming the earlier and the
\* repeating element, exactly when no non-provider element precedes the first
\* element that repeats an earlier identity, whatever the field values.
C2_DuplicateReportedUnlessNonProviderFirst ==
    (IsConstruction /\ IsListInput(res.value) /\ SharesIdentity(ItemsOf(res.value)))
    => LET items == ItemsOf(res.value)
           j == FirstOffending(items)
       IN  /\ ~res.out.ok
           /\ coll = NoColl
           /\ RepeatsEarlier(items, j) =>
                /\ res.out.err.kind = "CollectionSpecifiedProviderTwice"
                /\ res.out.err.provider_name = items[j].id.name
                /\ res.out.err.new_repr = Repr(items[j])
                /\ \E i \in 1..(j - 1) :
                      /\ items[i].kind = "provider"
                      /\ items[i].id = items[j].id
                      /\ res.out.err.original_repr = Repr(items[i])
           /\ ~RepeatsEarlier(items, j) =>
                res.out.err.kind = "CollectionElementNotAProvider"

\* a duplicate with a different field value, separated by another provider,
\* was rejected by the lenient constructor
C2_Witness ==
    /\ res.op = "try_from_value_with_default_info"
    /\ res.value = ListValue(<<foo1, bar1, foo2>>)
    /\ ~res.out.ok
    /\ res.out.err.kind = "CollectionSpecifiedProviderTwice"

(* -------------------------------- C3 ----------------------------------- *)

\* C3 as stated: whenever the input list contains a non-provider element,
\* construction fails with CollectionElementNotAProvider and the reported repr
\* is that of a non-provider element of the list.
C3_AnyNonProviderIsReported ==
    (IsConstruction /\ IsListInput(res.value) /\ HasNonProvider(ItemsOf(res.value)))
    => LET items == ItemsOf(res.value)
       IN  /\ ~res.out.ok
           /\ res.out.err.kind = "CollectionElementNotAProvider"
           /\ \E i \in 1..Len(items) :
                 items[i].kind # "provider" /\ res.out.err.repr = Repr(items[i])

\* C3 amended: when the input list contains a non-provider element,
\* construction fails; it fails with CollectionElementNotAProvider, naming the
\* repr of the first non-provider element, exactly when no element before that
\* one repeats the identity of an earlier element.
C3_NonProviderReportedUnlessDuplicateFirst ==
    (IsConstruction /\ IsListInput(res.value) /\ HasNonProvider(ItemsOf(res.value)))
    => LET items == ItemsOf(res.value)
           j == FirstOffending(items)
       IN  /\ ~res.out.ok
           /\ coll = NoColl
           /\ items[j].kind # "provider" =>
                /\ res.out.err.kind = "CollectionElementNotAProvider"
                /\ res.out.err.repr = Repr(items[j])
                /\ \A i \in 1..(j - 1) : items[i].kind = "provider"
           /\ items[j].kind = "provider" =>
                res.out.err.kind = "CollectionSpecifiedProviderTwice"

\* of two different non-providers behind a provider, the first one was named
C3_Witness ==
    /\ res.op = "try_from_value"
    /\ res.value = ListValue(<<foo1, NoneValue, not_a_provider>>)
    /\ ~res.out.ok
    /\ res.out.err = CollectionElementNotAProvider("None")

(* -------------------------------- C4 ----------------------------------- *)

\* C4: for a list of providers with pairwise distinct identities and no
\* DefaultInfo, try_from_value fails with CollectionMissingDefaultInfo and
\* returns no collection.
C4_StrictRequiresDefaultInfo ==
    (res.op = "try_from_value" /\ WellFormed(res.value) /\ ~HasDefaultInfo(ItemsOf(res.value)))
    => /\ ~res.out.ok
       /\ res.out.err.kind = "CollectionMissingDefaultInfo"
       /\ coll = NoColl

\* the strict constructor rejected two distinct providers without DefaultInfo
C4_Witness ==
    /\ res.op = "try_from_value"
    /\ WellFormed(res.value)
    /\ Len(ItemsOf(res.value)) >= 2
    /\ ~res.out.ok
    /\ res.out.err.kind = "CollectionMissingDefaultInfo"

(* -------------------------------- C5 ----------------------------------- *)

\* C5: for a list of providers with pairwise distinct identities and no
\* DefaultInfo, try_from_value_with_default_info calls the factory; a product
\* that is a DefaultInfo gives a collection of the input providers followed by
\* the product under the DefaultInfo identity, any other product gives
\* ValueIsNotDefaultInfo and no collection.
C5_LenientInsertsFactoryProduct ==
    (res.op = "try_from_value_with_default_info" /\ WellFormed(res.value)
        /\ ~HasDefaultInfo(ItemsOf(res.value)))
    => LET items == ItemsOf(res.value)
           is_default_info == res.product.kind = "provider" /\ res.product.id = DefaultInfoId
       IN  /\ res.factory_called
           /\ is_default_info =>
                /\ res.out.ok
                /\ coll = res.out.val
                /\ coll.providers =
                      [i \in 1..Len(items) |-> [k |-> items[i].id, v |-> items[i]]]
                      \o <<[k |-> DefaultInfoId, v |-> res.product]>>
           /\ ~is_default_info =>
                /\ ~res.out.ok
                /\ res.out.err = ValueIsNotDefaultInfo(Repr(res.product))
                /\ coll = NoColl

\* the lenient constructor added the factory's DefaultInfo behind two providers
C5_Witness ==
    /\ res.op = "try_from_value_with_default_info"
    /\ res.factory_called
    /\ res.out.ok
    /\ Len(coll.providers) >= 3
    /\ coll.providers[Len(coll.providers)] = [k |-> DefaultInfoId, v |-> res.product]

(* -------------------------------- C6 ----------------------------------- *)

\* C6: the lenient constructor calls the factory only when the input is a valid
\* list of providers without DefaultInfo; when validation fails or DefaultInfo
\* is present the factory is not called, and with DefaultInfo present the
\* result is the one try_from_value gives for the same input.
C6_FactoryOnlyWhenDefaultInfoAbsent ==
    res.op = "try_from_value_with_default_info"
    => /\ res.factory_called =>
            (WellFormed(res.value) /\ ~HasDefaultInfo(ItemsOf(res.value)))
       /\ (WellFormed(res.value) /\ HasDefaultInfo(ItemsOf(res.value))) =>
            /\ ~res.factory_called
            /\ res.out = try_from_value(res.value)
            /\ res.out.ok
       /\ ~WellFormed(res.value) => (~res.factory_called /\ ~res.out.ok)

\* the lenient constructor built a collection without calling the factory
C6_Witness ==
    /\ res.op = "try_from_value_with_default_info"
    /\ ~res.factory_called
    /\ res.out.ok
    /\ Len(coll.providers) >= 2

(* ------------------------- shapes of query keys ------------------------ *)

\* keys that are provider type descriptors
ProviderTypeKeys == {k \in QueryKeys : k.kind = "callable"}

\* the identity of the descriptor P is a key of the collection c
IsKeyOf(c, P) == P.id.some /\ \E i \in 1..Len(c.providers) : c.providers[i].k = P.id.v

\* the value stored in c under the identity of P
StoredUnder(c, P) ==
    c.providers[CHOOSE i \in 1..Len(c.providers) : c.providers[i].k = P.id.v].v

NamesInMapOrder(c) == [i \in 1..Len(c.providers) |-> c.providers[i].k.name]

(* -------------------------------- C7 ----------------------------------- *)

\* C7 as stated: for every held collection, mutable or frozen, and every
\* provider type key P: if P's identity is a key, `in` is true and `[]` and
\* `.get` return the stored value; otherwise `in` is false, `.get` returns None
\* and `[]` fails.
C7_OperatorsAgreeForEveryProviderType ==
    Held # NoColl =>
        \A P \in ProviderTypeKeys :
            IF IsKeyOf(Held, P)
            THEN /\ is_in(Held, P) = Ok(TRUE)
                 /\ at(Held, P) = Ok(StoredUnder(Held, P))
                 /\ get(Held, P) = Ok(StoredUnder(Held, P))
            ELSE /\ is_in(Held, P) = Ok(FALSE)
                 /\ get(Held, P) = Ok(NoneValue)
                 /\ ~at(Held, P).ok

\* C7 amended: the same for every provider type key P that has an identity;
\* for a provider type that has no identity yet (require_id fails) each of the
\* three operators fails with that one error.
C7_OperatorsAgreeForIdentifiedProviderTypes ==
    Held # NoColl =>
        \A P \in ProviderTypeKeys :
            /\ (P.id.some /\ IsKeyOf(Held, P)) =>
                  /\ is_in(Held, P) = Ok(TRUE)
                  /\ at(Held, P) = Ok(StoredUnder(Held, P))
                  /\ get(Held, P) = Ok(StoredUnder(Held, P))
            /\ (P.id.some /\ ~IsKeyOf(Held, P)) =>
                  /\ is_in(Held, P) = Ok(FALSE)
                  /\ get(Held, P) = Ok(NoneValue)
                  /\ ~at(Held, P).ok
            /\ ~P.id.some =>
                  /\ ~is_in(Held, P).ok /\ ~at(Held, P).ok /\ ~get(Held, P).ok
                  /\ is_in(Held, P) = at(Held, P)
                  /\ get(Held, P) = at(Held, P)
                  /\ at(Held, P).err.kind \notin {"AtNotFound", "AtTypeNotProvider"}

\* `.get` found a stored provider in a frozen collection that misses another
C7_Witness ==
    /\ fcoll # NoColl
    /\ res.op = "get"
    /\ res.index = FooInfo
    /\ res.out.ok
    /\ res.out.val.kind = "provider"
    /\ ~IsKeyOf(fcoll, BarInfo)

(* -------------------------------- C8 ----------------------------------- *)

\* C8: `[]` with a provider type whose identity is absent fails with AtNotFound
\* carrying the requested provider name and the names of all stored providers
\* in map order; AtNotFound arises in no other case, and `in` and `.get` never
\* fail with it.
C8_NotFoundOnlyFromIndexedAccess ==
    Held # NoColl =>
        /\ \A P \in ProviderTypeKeys :
              (P.id.some /\ ~IsKeyOf(Held, P)) =>
                  at(Held, P) = Err(AtNotFound(P.id.v.name, NamesInMapOrder(Held)))
        /\ \A k \in QueryKeys :
              /\ is_in(Held, k).ok \/ is_in(Held, k).err.kind # "AtNotFound"
              /\ get(Held, k).ok \/ get(Held, k).err.kind # "AtNotFound"
              /\ (~at(Held, k).ok /\ at(Held, k).err.kind = "AtNotFound") =>
                    (k.kind = "callable" /\ k.id.some /\ ~IsKeyOf(Held, k))
        /\ res.op \in {"is_in", "get"} =>
              (res.out.ok \/ res.out.err.kind # "AtNotFound")

\* `[]` missed a provider type in a collection of at least two providers
C8_Witness ==
    /\ Held # NoColl
    /\ res.op = "at"
    /\ ~res.out.ok
    /\ res.out.err.kind = "AtNotFound"
    /\ Len(res.out.err.keys) >= 2

(* -------------------------------- C9 ----------------------------------- *)

\* C9: for every key that is not a provider type descriptor, provider
\* instances included, `[]`, `in` and `.get` each fail with AtTypeNotProvider
\* naming the operator that was used and the type of the key.
C9_NonProviderTypeKeyIsRejected ==
    Held # NoColl =>
        /\ \A k \in QueryKeys \ ProviderTypeKeys :
              /\ at(Held, k) = Err(AtTypeNotProvider("[]", GetType(k)))
              /\ is_in(Held, k) = Err(AtTypeNotProvider("in", GetType(k)))
              /\ get(Held, k) = Err(AtTypeNotProvider(".get", GetType(k)))
        /\ (res.op \in {"at", "is_in", "get"} /\ res.index.kind # "callable") =>
              /\ ~res.out.ok
              /\ res.out.err.kind = "AtTypeNotProvider"
              /\ res.out.err.op = (CASE res.op = "at" -> "[]"
                                     [] res.op = "is_in" -> "in"
                                     [] res.op = "get" -> ".get")

\* `in` was asked with a provider instance whose type is stored, and failed
C9_Witness ==
    /\ Held # NoColl
    /\ res.op = "is_in"
    /\ res.index = foo1
    /\ IsKeyOf(Held, FooInfo)
    /\ res.out = Err(AtTypeNotProvider("in", "provider"))

(* -------------------------------- C10 ---------------------------------- *)

\* C10: a successful freeze yields a frozen collection with the same sequence
\* of provider identities as the mutable collection it consumed, each holding
\* the frozen form of the value stored under that identity before.
C10_FreezeKeepsEntries ==
    (res.op = "freeze" /\ res.out.ok)
    => /\ fcoll = res.out.val
       /\ coll = NoColl
       /\ Len(fcoll.providers) = Len(res.before.providers)
       /\ provider_ids(fcoll) = provider_ids(res.before)
       /\ provider_names(fcoll) = provider_names(res.before)
       /\ \A i \in 1..Len(fcoll.providers) :
             /\ fcoll.providers[i].k = res.before.providers[i].k
             /\ fcoll.providers[i].v.frozen
             /\ fcoll.providers[i].v.id = res.before.providers[i].v.id
             /\ fcoll.providers[i].v.field = res.before.providers[i].v.field

\* three providers, not all frozen before, were frozen
C10_Witness ==
    /\ res.op = "freeze"
    /\ res.out.ok
    /\ Len(fcoll.providers) >= 3
    /\ \E i \in 1..Len(res.before.providers) : ~res.before.providers[i].v.frozen
    /\ \E i \in 1..Len(res.before.providers) : res.before.providers[i].v.frozen

(* -------------------------------- C11 ---------------------------------- *)

\* the first entry, in map order, whose value fails to freeze
FirstFailing(c, failing) ==
    CHOOSE i \in 1..Len(c.providers) :
        /\ c.providers[i].k \in failing
        /\ \A j \in 1..(i - 1) : c.providers[j].k \notin failing

\* C11: when freezing any stored value fails, freeze returns the error of the
\* first such value in map order and no frozen collection exists; a frozen
\* collection never holds an unfrozen value or fewer entries than the mutable
\* collection it was made from.
C11_FreezeIsAllOrNothing ==
    /\ (res.op = "freeze" /\ res.failing # {}) =>
          /\ ~res.out.ok
          /\ fcoll = NoColl
          /\ coll = NoColl
          /\ res.out.err.kind = "FreezeError"
          /\ res.out.err.repr =
                Repr(res.before.providers[FirstFailing(res.before, res.failing)].v)
    /\ (res.op = "freeze" /\ res.failing = {}) => (res.out.ok /\ fcoll = res.out.val)
    /\ fcoll # NoColl => \A i \in 1..Len(fcoll.providers) : fcoll.providers[i].v.frozen
    /\ (res.op = "freeze" /\ fcoll # NoColl) =>
          Len(fcoll.providers) = Len(res.before.providers)

\* a freeze failed at a value behind one that had frozen well
C11_Witness ==
    /\ res.op = "freeze"
    /\ ~res.out.ok
    /\ fcoll = NoColl
    /\ Len(res.before.providers) >= 3
    /\ res.before.providers[1].k \notin res.failing
    /\ ~res.before.providers[1].v.frozen

(* ------------------------ shapes of named paths ------------------------ *)

\* the sub-target map of the DefaultInfo stored in c
SubTargetsOf(c) ==
    c.providers[CHOOSE i \in 1..Len(c.providers) : c.providers[i].k = DefaultInfoId]
        .v.sub_targets

SubTargetNamesOf(c) == [j \in 1..Len(SubTargetsOf(c)) |-> SubTargetsOf(c)[j].k]

HasSubTarget(c, n) == \E j \in 1..Len(SubTargetsOf(c)) : SubTargetsOf(c)[j].k = n

SubTarget(c, n) ==
    SubTargetsOf(c)[CHOOSE j \in 1..Len(SubTargetsOf(c)) : SubTargetsOf(c)[j].k = n].v

\* every segment of the path is found when descending from c
RECURSIVE Resolves(_, _)
Resolves(c, path) ==
    \/ path = <<>>
    \/ /\ HasSubTarget(c, Head(path))
       /\ Resolves(SubTarget(c, Head(path)), Tail(path))

\* the collection reached from c through a path that resolves
RECURSIVE Descend(_, _)
Descend(c, path) ==
    IF path = <<>> THEN c ELSE Descend(SubTarget(c, Head(path)), Tail(path))

\* the number of leading segments of the path that are found
FoundSegments(c, path) ==
    CHOOSE k \in 0..Len(path) :
        /\ Resolves(c, SubSeq(path, 1, k))
        /\ k < Len(path) => ~Resolves(c, SubSeq(path, 1, k + 1))

IsNamedLookup == res.op = "lookup_inner" /\ res.label.name.kind = "Named"

(* -------------------------------- C12 ---------------------------------- *)

\* C12: when a segment of a named path is missing, lookup_inner fails with
\* RequestedInvalidSubTarget naming the missing segment and the full label, and
\* the sub-target names it lists are those of the last collection reached, the
\* one in which the missing segment was looked up.
C12_AvailableNamesOfLastReached ==
    (IsNamedLookup /\ ~Resolves(fcoll, res.label.name.names))
    => LET path == res.label.name.names
           k == FoundSegments(fcoll, path)
       IN  /\ ~res.out.ok
           /\ res.out.err.kind = "RequestedInvalidSubTarget"
           /\ res.out.err.name = path[k + 1]
           /\ res.out.err.label = res.label
           /\ res.out.err.available = SubTargetNamesOf(Descend(fcoll, SubSeq(path, 1, k)))

(* -------------------------------- C13 ---------------------------------- *)

\* C13: a named path is resolved segment by segment from the left, each one in
\* the sub-targets of the DefaultInfo of the collection reached so far; when
\* all are found the result is the collection reached at the end (the starting
\* one for an empty path), and the Default selector returns the starting
\* collection without reading any DefaultInfo.
C13_NamedPathDescendsLeftToRight ==
    /\ (IsNamedLookup /\ Resolves(fcoll, res.label.name.names)) =>
          LET path == res.label.name.names
          IN  /\ res.out = Ok(Descend(fcoll, path))
              /\ res.visited = [k \in 1..Len(path) |-> Descend(fcoll, SubSeq(path, 1, k - 1))]
    /\ (IsNamedLookup /\ ~Resolves(fcoll, res.label.name.names)) =>
          LET path == res.label.name.names
              k == FoundSegments(fcoll, path)
          IN  /\ ~res.out.ok
              /\ res.out.err.name = path[k + 1]
              /\ SubSeq(res.visited, 1, k + 1) =
                    [j \in 1..(k + 1) |-> Descend(fcoll, SubSeq(path, 1, j - 1))]
    /\ (res.op = "lookup_inner" /\ res.label.name.kind = "Default") =>
          (res.out = Ok(fcoll) /\ res.visited = <<>>)

\* a path of two different segments was resolved through a nested collection
\* that has two sub-targets
C13_Witness ==
    /\ IsNamedLookup
    /\ Len(res.label.name.names) = 2
    /\ res.label.name.names[1] # res.label.name.names[2]
    /\ res.out.ok
    /\ res.out.val # fcoll
    /\ Len(res.visited) = 2
    /\ Len(SubTargetsOf(res.visited[2])) = 2

(* -------------------------------- C14 ---------------------------------- *)

\* C14: with an unrecognized flavor lookup_inner fails with UnknownFlavors
\* naming the unconfigured target and the flavor, whatever the collection
\* holds, returns no handle and reads no DefaultInfo.
C14_UnrecognizedFlavorAlwaysFails ==
    (res.op = "lookup_inner" /\ res.label.name.kind = "UnrecognizedFlavor")
    => /\ ~res.out.ok
       /\ res.out.err.kind = "UnknownFlavors"
       /\ res.out.err.flavor = res.label.name.flavor
       /\ res.out.err.target = res.label.target \o "#" \o res.label.name.flavor
       /\ res.visited = <<>>

\* the flavor named a sub-target that the collection has, and still failed
C14_Witness ==
    /\ res.op = "lookup_inner"
    /\ res.label.name.kind = "UnrecognizedFlavor"
    /\ HasSubTarget(fcoll, res.label.name.flavor)
    /\ ~res.out.ok

(* -------------------------------- C15 ---------------------------------- *)

\* c has an entry under the DefaultInfo identity, and it holds a DefaultInfo
HoldsDefaultInfo(c) ==
    \E i \in 1..Len(c.providers) :
        /\ c.providers[i].k = DefaultInfoId
        /\ c.providers[i].v.kind = "provider"
        /\ c.providers[i].v.id = DefaultInfoId

\* C15: every collection a constructor returns has an entry under the
\* DefaultInfo identity, the entry is still there after freeze, and
\* default_info / default_info_value of a frozen collection never hit the
\* "DefaultInfo should always be set" assertion.
C15_DefaultInfoAlwaysPresent ==
    /\ (IsConstruction /\ res.out.ok) => HoldsDefaultInfo(res.out.val)
    /\ coll # NoColl => HoldsDefaultInfo(coll)
    /\ (res.op = "freeze" /\ res.out.ok) => HoldsDefaultInfo(res.out.val)
    /\ fcoll # NoColl =>
          /\ HoldsDefaultInfo(fcoll)
          /\ default_info_of(fcoll).ok
          /\ default_info_value(fcoll).ok
          /\ default_info_of(fcoll).val = default_info_value(fcoll).val
          /\ default_info_of(fcoll).val.id = DefaultInfoId

\* a collection of several providers was frozen and its DefaultInfo was read
C15_Witness ==
    /\ res.op = "freeze"
    /\ res.out.ok
    /\ Len(fcoll.providers) >= 2
    /\ fcoll.providers[Len(fcoll.providers)].k = DefaultInfoId
    /\ default_info_of(fcoll).ok

(* -------------------------------- C18 ---------------------------------- *)

\* what the constructor of the last operation returns for another input
SameConstructor(value) ==
    IF res.op = "try_from_value" THEN try_from_value(value)
    ELSE try_from_value_with_default_info(value, res.product).out

\* C18: construction fails with CollectionNotAList when the input, resolved
\* promises seen through, is no list; otherwise with the error of the first
\* element that is no provider (naming it) or repeats an earlier identity
\* (naming the earlier element as original and this one as new); what follows
\* that element does not matter, and the DefaultInfo check or factory call
\* comes only after every element was validated.
C18_FirstOffendingElementDecides ==
    IsConstruction =>
        LET value == GetRecursive(res.value)
        IN  /\ value.kind # "list" => res.out = Err(CollectionNotAList(Repr(value)))
            /\ (value.kind = "list" /\ ~WellFormed(res.value)) =>
                  LET items == value.items
                      j == FirstOffending(items)
                  IN  /\ ~res.out.ok
                      /\ items[j].kind # "provider" =>
                            res.out.err = CollectionElementNotAProvider(Repr(items[j]))
                      /\ items[j].kind = "provider" =>
                            \E i \in 1..(j - 1) :
                               /\ items[i].kind = "provider"
                               /\ items[i].id = items[j].id
                               /\ res.out.err = CollectionSpecifiedProviderTwice(
                                      items[j].id.name, Repr(items[i]), Repr(items[j]))
                      /\ res.out = SameConstructor(ListValue(SubSeq(items, 1, j)))
            /\ (~res.out.ok /\ res.out.err.kind \in
                    {"CollectionMissingDefaultInfo", "ValueIsNotDefaultInfo"}) =>
                  WellFormed(res.value)
            /\ (res.op = "try_from_value_with_default_info" /\ res.factory_called) =>
                  WellFormed(res.value)

\* a repeated identity ahead of a non-provider was the one reported
C18_Witness ==
    /\ res.op = "try_from_value"
    /\ res.value = ListValue(<<foo1, foo2, not_a_provider>>)
    /\ res.out = Err(CollectionSpecifiedProviderTwice(
                         "FooInfo", "FooInfo(\"foo1\")", "FooInfo(\"foo2\")"))

(* --------------------------- soft error claims ------------------------- *)

\* the value $BUCK2_HARD_ERROR parsed to, when it is set and valid
ConfigIsSet == HardErrorGet(env).ok /\ HardErrorGet(env).val.some

\* the configuration selects the category: Bool(true), or a Selected set
\* that contains it
ConfigSelects(category) ==
    /\ ConfigIsSet
    /\ LET h == HardErrorGet(env).val.v
       IN  \/ h.kind = "Bool" /\ h.v
           \/ h.kind = "Selected" /\ category \in h.s

\* `err` escalated to a failure
Escalated(err) == Err(Context(err, "Upgraded warning to failure via $BUCK2_HARD_ERROR"))

\* C16 (as stated): between two resets of a call site's counter the handler
\* is invoked at most 10 times for that call site, whatever the interleaving
\* of the callers and the reset.
C16_AtMostTenInvocationsBetweenResets ==
    \A site \in Sites : invoked[site] <= ReportLimit

\* C17 (as stated): a call of handle_soft_error returns Err exactly when a
\* hard-error configuration is set and selects the category, and returns the
\* error back as Ok otherwise.
C17_ErrExactlyWhenConfigSelects ==
    last.some =>
        IF ConfigSelects(Category(last.v.site))
        THEN last.v.ret = Escalated(SoftError(last.v.site))
        ELSE last.v.ret = Ok(SoftError(last.v.site))

\* C17 (amended): the result of handle_soft_error is decided by
\* $BUCK2_HARD_ERROR and the category alone, whatever the occurrence count and
\* whether or not a handler is installed: the escalated error when a valid
\* configuration selects the category, the error back as Ok when the variable
\* is unset or its valid configuration does not select the category, and the
\* failure to parse the variable when its value is not a valid configuration.
C17_ResultDecidedByConfigAndCategory ==
    last.some =>
        IF ~HardErrorGet(env).ok
        THEN last.v.ret = Err(HardErrorGet(env).err)
        ELSE IF ConfigSelects(Category(last.v.site))
        THEN last.v.ret = Escalated(SoftError(last.v.site))
        ELSE last.v.ret = Ok(SoftError(last.v.site))

\* an occurrence past the limit, not reported to the handler, has been
\* escalated by a selection that names its category
C17_Witness ==
    /\ last.some
    /\ ~last.v.fresh
    /\ count[last.v.site] > ReportLimit
    /\ HardErrorGet(env).ok
    /\ HardErrorGet(env).val.some
    /\ HardErrorGet(env).val.v.kind = "Selected"
    /\ last.v.ret = Escalated(SoftError(last.v.site))

====
